---- MODULE Spec2Model ----
(***************************************************************************)
(* A model of worm.py: a recursive literal-text search.  find_files walks  *)
(* the tree below '.', pruning excluded directories and skipping files     *)
(* with a binary-like suffix; search_file reads one file, finds the        *)
(* offsets of the query and formats a snippet per offset; main prints the  *)
(* report.                                                                 *)
(*                                                                         *)
(* A Python str is a sequence of one-character strings, so that slicing,   *)
(* lower-casing, escaping and matching are computed and not assumed.  A    *)
(* path is the sequence of its components ('./src/a.txt' is                *)
(* << ".", "src", "a.txt" >>, each component itself a str).                *)
(***************************************************************************)
EXTENDS Integers, Sequences, FiniteSets, TLC

VARIABLES
    fs,             \* the file system below '.', fixed during a run
    argv,           \* sys.argv
    pc,             \* position in main / in the function under call
    query,          \* main's query (sys.argv[1]) or the argument of a call
    results_found,  \* main's flag
    stack,          \* os.walk: directories still to be listed
    root,           \* os.walk: the directory whose files are being filtered
    files,          \* find_files: file names of root not yet looked at
    file,           \* main: the path find_files has just yielded
    result,         \* main: what search_file returned for file
    out,            \* standard output, a sequence of lines
    opened,         \* every path handed to open(), in order
    listed,         \* every directory os.walk has listed, in order
    yielded,        \* every path find_files has yielded, in order
    content,        \* argument of a direct call of find_matches / format_snippet
    index,          \* argument of a direct call of format_snippet
    context,        \* argument of a direct call of format_snippet
    matches,        \* value returned by a direct call of find_matches
    snippet,        \* value returned by a direct call of format_snippet
    path            \* argument of a direct call of search_file

vars == << fs, argv, pc, query, results_found, stack, root, files, file, result,
           out, opened, listed, yielded, content, index, context, matches,
           snippet, path >>

(***************************************************************************)
(* Bounds of the model.                                                    *)
(***************************************************************************)
NumNodes == 3
MaxArgs == 2
MaxContentLen == 4
MaxQueryLen == 2
MaxContext == 3

(***************************************************************************)
(* Strings.                                                                *)
(***************************************************************************)
Max(a, b) == IF a >= b THEN a ELSE b
Min(a, b) == IF a <= b THEN a ELSE b

RECURSIVE Concat(_)
\* ''.join(parts)
Concat(parts) ==
    IF parts = << >> THEN << >> ELSE Head(parts) \o Concat(Tail(parts))

\* s[a:b] of Python: negative indices count from the end, both are clamped.
PySlice(s, a, b) ==
    LET n == Len(s)
        lo == IF a < 0 THEN Max(0, a + n) ELSE Min(a, n)
        hi == IF b < 0 THEN Max(0, b + n) ELSE Min(b, n)
    IN  SubSeq(s, lo + 1, hi)

UpperAlphabet ==
    << "A", "B", "C", "D", "E", "F", "G", "H", "I", "J", "K", "L", "M",
       "N", "O", "P", "Q", "R", "S", "T", "U", "V", "W", "X", "Y", "Z" >>
LowerAlphabet ==
    << "a", "b", "c", "d", "e", "f", "g", "h", "i", "j", "k", "l", "m",
       "n", "o", "p", "q", "r", "s", "t", "u", "v", "w", "x", "y", "z" >>

\* str.lower(), on the ASCII letters
lower(s) ==
    [k \in 1..Len(s) |->
        IF \E i \in 1..26 : UpperAlphabet[i] = s[k]
        THEN LowerAlphabet[CHOOSE i \in 1..26 : UpperAlphabet[i] = s[k]]
        ELSE s[k]]

\* str.rfind(c): 0-based index of the last occurrence, -1 when there is none
rfind(s, c) ==
    IF \E i \in 1..Len(s) : s[i] = c
    THEN (CHOOSE i \in 1..Len(s) : s[i] = c /\ \A j \in (i+1)..Len(s) : s[j] # c) - 1
    ELSE -1

\* pathlib's PurePath.suffix of a bare file name: the last dot counts only
\* when it is neither the first nor the last character of the name.
suffix(name) ==
    LET i == rfind(name, ".")
    IN  IF 0 < i /\ i < Len(name) - 1 THEN PySlice(name, i, Len(name)) ELSE << >>

(***************************************************************************)
(* The two lookup sets.                                                    *)
(***************************************************************************)
EXCLUDE_PATTERNS ==
    { << "n","o","d","e","_","m","o","d","u","l","e","s" >>,
      << ".","g","i","t" >>,
      << "d","i","s","t" >>,
      << "b","u","i","l","d" >>,
      << "_","_","p","y","c","a","c","h","e","_","_" >>,
      << ".","p","y","t","e","s","t","_","c","a","c","h","e" >>,
      << "v","e","n","v" >>,
      << "e","n","v" >>,
      << "b","a","c","k","u","p","s" >> }

BINARY_EXTENSIONS ==
    { << ".","z","i","p" >>, << ".","g","z" >>, << ".","t","a","r" >>,
      << ".","r","a","r" >>, << ".","7","z" >>,
      << ".","d","b" >>, << ".","d","b",".","b","a","k" >>,
      << ".","s","q","l","i","t","e" >>, << ".","s","q","l","i","t","e","3" >>,
      << ".","j","p","g" >>, << ".","j","p","e","g" >>, << ".","p","n","g" >>,
      << ".","g","i","f" >>,
      << ".","p","y","c" >>, << ".","p","y","o" >>, << ".","p","y","d" >>,
      << ".","s","o" >>, << ".","d","l","l" >>, << ".","d","y","l","i","b" >>,
      << ".","e","x","e" >>, << ".","b","i","n" >>,
      << ".","b","a","k" >>, << ".","l","o","g" >> }

(***************************************************************************)
(* find_matches: re.escape, then re.finditer.                              *)
(***************************************************************************)
\* The characters re.escape puts a backslash in front of (Python 3.7+);
\* the vertical tab is left out, TLA+ has no literal for it.
SpecialChars ==
    { "(", ")", "[", "]", "{", "}", "?", "*", "+", "-", "|", "^", "$", "\\",
      ".", "&", "~", "#", " ", "\t", "\n", "\r", "\f" }

sanitize_search_term_noescape(term) == term

sanitize_search_term(term) ==
    Concat([k \in 1..Len(term) |->
              IF term[k] \in SpecialChars THEN << "\\", term[k] >> ELSE << term[k] >>])

\* The pattern language of re, as far as the model's alphabet reaches: a
\* backslash makes the next character a literal, '.' is any character but a
\* newline, a postfix '*' repeats the atom before it greedily, and every
\* other character is a literal.  (Escaped patterns never hold a bare '.' or
\* '*'; they are here because the engine, not the caller, gives them meaning.)
RECURSIVE re_compile(_, _)
re_compile(pattern, i) ==
    IF i > Len(pattern) THEN << >>
    ELSE LET esc  == pattern[i] = "\\" /\ i < Len(pattern)
             atom == IF esc THEN [kind |-> "lit", ch |-> pattern[i + 1]]
                     ELSE IF pattern[i] = "." THEN [kind |-> "any", ch |-> "."]
                     ELSE [kind |-> "lit", ch |-> pattern[i]]
             next == IF esc THEN i + 2 ELSE i + 1
             star == next <= Len(pattern) /\ pattern[next] = "*"
         IN  << [kind |-> atom.kind, ch |-> atom.ch, star |-> star] >>
             \o re_compile(pattern, IF star THEN next + 1 ELSE next)

AtomMatches(atom, c) ==
    IF atom.kind = "any" THEN c # "\n" ELSE c = atom.ch

RECURSIVE RunLength(_, _, _)
\* how many characters of s from 0-based position p on the atom accepts
RunLength(atom, s, p) ==
    IF p < Len(s) /\ AtomMatches(atom, s[p + 1]) THEN 1 + RunLength(atom, s, p + 1) ELSE 0

RECURSIVE MatchEnd(_, _, _, _)
RECURSIVE TryStar(_, _, _, _, _)
\* The end (0-based, exclusive) of the match of atoms[k..] that starts at
\* position p of s, or -1 when there is none.
MatchEnd(atoms, k, s, p) ==
    IF k > Len(atoms) THEN p
    ELSE IF atoms[k].star THEN TryStar(atoms, k, s, p, RunLength(atoms[k], s, p))
    ELSE IF p < Len(s) /\ AtomMatches(atoms[k], s[p + 1])
         THEN MatchEnd(atoms, k + 1, s, p + 1)
         ELSE -1
TryStar(atoms, k, s, p, n) ==
    IF n < 0 THEN -1
    ELSE LET e == MatchEnd(atoms, k + 1, s, p + n)
         IN  IF e # -1 THEN e ELSE TryStar(atoms, k, s, p, n - 1)

RECURSIVE Scan(_, _, _, _)
\* The scanner behind re.finditer: the next search starts where the last
\* match ended, and right after an empty match an empty match at the same
\* position is not accepted (must_advance).
Scan(atoms, s, pos, must_advance) ==
    IF pos > Len(s) THEN << >>
    ELSE LET e == MatchEnd(atoms, 1, s, pos)
         IN  IF e = -1 \/ (must_advance /\ e = pos)
             THEN Scan(atoms, s, pos + 1, FALSE)
             ELSE << pos >> \o Scan(atoms, s, e, e = pos)

\* [m.start() for m in re.finditer(pattern, content)]
re_finditer_starts(pattern, s) == Scan(re_compile(pattern, 1), s, 0, FALSE)

find_matches(c, q) == re_finditer_starts(sanitize_search_term(q), c)

(***************************************************************************)
(* format_snippet.                                                         *)
(***************************************************************************)
DefaultContext == 50
Ellipsis == << ".", ".", "." >>

format_snippet_unclamped(c, i, ctx) ==
    LET start == i - ctx
        end   == Min(Len(c), i + ctx)
    IN  Ellipsis \o PySlice(c, start, end) \o Ellipsis

format_snippet(c, i, ctx) ==
    LET start == Max(0, i - ctx)
        end   == Min(Len(c), i + ctx)
    IN  Ellipsis \o PySlice(c, start, end) \o Ellipsis

(***************************************************************************)
(* The file system.  Node 0 is '.', the directory main starts from; node n *)
(* in 1..NumNodes is a directory or a file whose parent is a directory     *)
(* with a smaller number.  A directory lists its entries by node number.   *)
(***************************************************************************)
Dot == << "." >>

RECURSIVE PathOf(_, _)
PathOf(f, n) == IF n = 0 THEN << Dot >> ELSE Append(PathOf(f, f[n].parent), f[n].name)

\* os.path.join(directory, name)
join(dir, name) == Append(dir, name)

\* os.path.relpath(path), the working directory being '.'
relpath(p) == IF Len(p) > 1 /\ Head(p) = Dot THEN Tail(p) ELSE p

RECURSIVE PathStr(_)
\* the text of a path: its components separated by '/'
PathStr(p) ==
    IF Len(p) = 0 THEN << >>
    ELSE IF Len(p) = 1 THEN Head(p)
    ELSE Head(p) \o << "/" >> \o PathStr(Tail(p))

\* os.scandir(p): the entries of directory p, in the order the OS lists them
scandir(f, p) ==
    SelectSeq([n \in 1..Len(f) |-> n], LAMBDA n : PathOf(f, f[n].parent) = p
                                                  /\ (f[n].parent = 0 \/ f[f[n].parent].isdir))

\* what os.walk yields for directory p: (p, dirs, nondirs)
walk_dirs(f, p) ==
    LET es == SelectSeq(scandir(f, p), LAMBDA n : f[n].isdir)
    IN  [k \in 1..Len(es) |-> f[es[k]].name]
walk_nondirs(f, p) ==
    LET es == SelectSeq(scandir(f, p), LAMBDA n : ~f[n].isdir)
    IN  [k \in 1..Len(es) |-> f[es[k]].name]

\* open(path, 'r', encoding='utf-8') followed by f.read()
ReadFile(f, p) ==
    IF \E n \in DOMAIN f : PathOf(f, n) = p /\ ~f[n].isdir /\ f[n].readable
    THEN [ok |-> TRUE,
          content |-> f[CHOOSE n \in DOMAIN f : PathOf(f, n) = p /\ ~f[n].isdir].content]
    ELSE [ok |-> FALSE, content |-> << >>]

(***************************************************************************)
(* find_files: the two filters.                                            *)
(***************************************************************************)
prune_dirs_rebind(dirs) == dirs

\* dirs[:] = [d for d in dirs if d not in EXCLUDE_PATTERNS]
prune_dirs(dirs) == SelectSeq(dirs, LAMBDA d : d \notin EXCLUDE_PATTERNS)

is_text_file_case_sensitive(name) == suffix(name) \notin BINARY_EXTENSIONS

\* Path(file).suffix.lower() not in BINARY_EXTENSIONS
is_text_file(name) == lower(suffix(name)) \notin BINARY_EXTENSIONS

(***************************************************************************)
(* Lines of standard output.                                               *)
(***************************************************************************)
SepWidth == 80
Line(kind, text) == [kind |-> kind, text |-> text]
BlankLine == Line("blank", << >>)

(***************************************************************************)
(* search_file.  The value is what it returns (None, or the dict with the  *)
(* relative path and the snippets) and the lines it prints itself.         *)
(***************************************************************************)
None == [some |-> FALSE, path |-> << >>, snippets |-> << >>]

search_file_silent(f, p, q) ==
    LET rd == ReadFile(f, p)
        ms == find_matches(rd.content, q)
    IN  IF rd.ok /\ ms # << >>
        THEN [ret |-> [some |-> TRUE, path |-> relpath(p),
                       snippets |-> [k \in 1..Len(ms) |->
                                       format_snippet(rd.content, ms[k], DefaultContext)]],
              printed |-> << >>]
        ELSE [ret |-> None, printed |-> << >>]

search_file_first_only(f, p, q) ==
    LET rd == ReadFile(f, p)
        ms == find_matches(rd.content, q)
    IN  IF ~rd.ok
        THEN [ret |-> None, printed |-> << Line("error", PathStr(p)) >>]
        ELSE IF ms # << >>
        THEN [ret |-> [some |-> TRUE, path |-> relpath(p),
                       snippets |-> << format_snippet(rd.content, ms[1], DefaultContext) >>],
              printed |-> << >>]
        ELSE [ret |-> None, printed |-> << >>]

search_file(f, p, q) ==
    LET rd == ReadFile(f, p)
        ms == find_matches(rd.content, q)
    IN  IF ~rd.ok
        THEN [ret |-> None, printed |-> << Line("error", PathStr(p)) >>]
        ELSE IF ms # << >>
        THEN [ret |-> [some |-> TRUE, path |-> relpath(p),
                       snippets |-> [k \in 1..Len(ms) |->
                                       format_snippet(rd.content, ms[k], DefaultContext)]],
              printed |-> << >>]
        ELSE [ret |-> None, printed |-> << >>]

(***************************************************************************)
(* The inputs of the model: the trees below '.', and sys.argv.             *)
(***************************************************************************)
DirEntry(name) ==
    [isdir |-> TRUE, name |-> name, readable |-> TRUE, content |-> << >>]
FileEntry(name, readable, text) ==
    [isdir |-> FALSE, name |-> name, readable |-> readable, content |-> text]

\* 'src' is walked, 'env' is an excluded name.
DirPool == { DirEntry(<< "s","r","c" >>), DirEntry(<< "e","n","v" >>) }

\* A text file with two matches of 'a', a text file with none, an archive with
\* an upper-case suffix, a dot file named like a binary suffix, and a file
\* that cannot be read.
FilePool ==
    { FileEntry(<< "a",".","t","x","t" >>, TRUE, << "a",".","a" >>),
      FileEntry(<< "b",".","t","x","t" >>, TRUE, << "b" >>),
      FileEntry(<< "A",".","Z","I","P" >>, TRUE, << "a" >>),
      FileEntry(<< ".","l","o","g" >>, TRUE, << "a" >>),
      FileEntry(<< "R","E","A","D","M","E" >>, FALSE, << >>) }

NodeSet(n) ==
    { [isdir |-> e.isdir, name |-> e.name, readable |-> e.readable,
       content |-> e.content, parent |-> q] : e \in DirPool \cup FilePool, q \in 0..(n - 1) }

\* parents are directories, and no directory holds two entries of one name
WellFormed(f) ==
    /\ \A n \in DOMAIN f : f[n].parent = 0 \/ f[f[n].parent].isdir
    /\ \A m, n \in DOMAIN f :
          (m # n /\ f[m].parent = f[n].parent) => f[m].name # f[n].name

RECURSIVE TreesOf(_)
TreesOf(n) ==
    IF n = 0 THEN { << >> }
    ELSE { Append(f, e) : f \in TreesOf(n - 1), e \in NodeSet(n) }

Trees == { f \in TreesOf(NumNodes) : WellFormed(f) }

Program == << "w","o","r","m",".","p","y" >>
Queries == { << "a" >>, << >> }
ArgvSet == { [i \in 1..(k + 1) |-> IF i = 1 THEN Program ELSE q] :
                k \in 0..MaxArgs, q \in Queries }

Alphabet == { "a", "A", ".", "*" }
Strings(n) == UNION { [1..k -> Alphabet] : k \in 0..n }

(***************************************************************************)
(* main, with find_files as the generator it drives.                       *)
(***************************************************************************)
Idle ==
    /\ query = << >> /\ results_found = FALSE /\ stack = << >> /\ root = << >>
    /\ files = << >> /\ file = << >> /\ result = None /\ out = << >>
    /\ opened = << >> /\ listed = << >> /\ yielded = << >>
    /\ content = << >> /\ index = 0 /\ context = 0 /\ matches = << >>
    /\ snippet = << >> /\ path = << >>

Init ==
    /\ fs \in Trees
    /\ argv \in ArgvSet
    /\ pc = "main"
    /\ Idle

Unit == << content, index, context, matches, snippet, path >>

\* len(sys.argv) != 2: the usage message and the example, then return
Main_Usage ==
    /\ pc = "main"
    /\ Len(argv) # 2
    /\ out' = out \o << Line("usage", << >>), Line("example", << >>) >>
    /\ pc' = "done"
    /\ UNCHANGED << fs, argv, query, results_found, stack, root, files, file,
                    result, opened, listed, yielded, Unit >>

Main_Begin_two_or_more ==
    /\ pc = "main"
    /\ Len(argv) >= 2
    /\ query' = argv[2]
    /\ out' = out \o << BlankLine, Line("header", argv[2]), BlankLine >>
    /\ results_found' = FALSE
    /\ stack' = << << Dot >> >>
    /\ pc' = "walk"
    /\ UNCHANGED << fs, argv, root, files, file, result, opened, listed, yielded, Unit >>

\* query = sys.argv[1]; the header; results_found = False; find_files('.')
Main_Begin ==
    /\ pc = "main"
    /\ Len(argv) = 2
    /\ query' = argv[2]
    /\ out' = out \o << BlankLine, Line("header", argv[2]), BlankLine >>
    /\ results_found' = FALSE
    /\ stack' = << << Dot >> >>
    /\ pc' = "walk"
    /\ UNCHANGED << fs, argv, root, files, file, result, opened, listed, yielded, Unit >>

\* os.walk moves on to the next directory: it lists it, find_files prunes
\* dirs in place, and os.walk will descend into what is left of dirs.
FindFiles_NextDir ==
    /\ pc = "walk"
    /\ files = << >>
    /\ stack # << >>
    /\ LET top  == Head(stack)
           dirs == prune_dirs(walk_dirs(fs, top))
       IN  /\ root' = top
           /\ listed' = Append(listed, top)
           /\ files' = walk_nondirs(fs, top)
           /\ stack' = [k \in 1..Len(dirs) |-> join(top, dirs[k])] \o Tail(stack)
    /\ UNCHANGED << fs, argv, pc, query, results_found, file, result, out,
                    opened, yielded, Unit >>

\* for file in files: yield the path unless the suffix is binary-like
FindFiles_NextFile ==
    /\ pc = "walk"
    /\ files # << >>
    /\ files' = Tail(files)
    /\ IF is_text_file(Head(files))
       THEN /\ file' = join(root, Head(files))
            /\ yielded' = Append(yielded, join(root, Head(files)))
            /\ pc' = "search"
       ELSE UNCHANGED << file, yielded, pc >>
    /\ UNCHANGED << fs, argv, query, results_found, stack, root, result, out,
                    opened, listed, Unit >>

\* result = search_file(file, query)
Main_SearchFile ==
    /\ pc = "search"
    /\ opened' = Append(opened, file)
    /\ result' = search_file(fs, file, query).ret
    /\ out' = out \o search_file(fs, file, query).printed
    /\ pc' = "report"
    /\ UNCHANGED << fs, argv, query, results_found, stack, root, files, file,
                    listed, yielded, Unit >>

Report_separator_first(r) ==
    << BlankLine, Line("found", PathStr(r.path)), Line("sep", [k \in 1..SepWidth |-> "-"]) >>
    \o [k \in 1..Len(r.snippets) |-> Line("context", r.snippets[k])]

\* the block of one file
Report(r) ==
    << BlankLine, Line("found", PathStr(r.path)) >>
    \o [k \in 1..Len(r.snippets) |-> Line("context", r.snippets[k])]
    \o << Line("sep", [k \in 1..SepWidth |-> "-"]) >>

\* if result: results_found = True and the block is printed
Main_Report ==
    /\ pc = "report"
    /\ IF result.some
       THEN /\ results_found' = TRUE
            /\ out' = out \o Report(result)
       ELSE UNCHANGED << results_found, out >>
    /\ pc' = "walk"
    /\ UNCHANGED << fs, argv, query, stack, root, files, file, result, opened,
                    listed, yielded, Unit >>

Main_Finish_unconditional ==
    /\ pc = "walk"
    /\ files = << >>
    /\ stack = << >>
    /\ out' = Append(out, Line("nomatch", << >>))
    /\ pc' = "done"
    /\ UNCHANGED << fs, argv, query, results_found, stack, root, files, file,
                    result, opened, listed, yielded, Unit >>

\* the generator is exhausted: if not results_found, the notice
Main_Finish ==
    /\ pc = "walk"
    /\ files = << >>
    /\ stack = << >>
    /\ out' = IF results_found THEN out ELSE Append(out, Line("nomatch", << >>))
    /\ pc' = "done"
    /\ UNCHANGED << fs, argv, query, results_found, stack, root, files, file,
                    result, opened, listed, yielded, Unit >>

Next ==
    \/ Main_Usage
    \/ Main_Begin
    \/ FindFiles_NextDir
    \/ FindFiles_NextFile
    \/ Main_SearchFile
    \/ Main_Report
    \/ Main_Finish

Spec == Init /\ [][Next]_vars

(***************************************************************************)
(* Direct calls of find_matches and search_file, on every content and      *)
(* query over Alphabet up to the bounds.  search_file is called on a file  *)
(* that holds the content, on a file that cannot be read and on a path     *)
(* that does not exist.                                                    *)
(***************************************************************************)
TextFile == << Dot, << "f",".","t","x","t" >> >>
LockedFile == << Dot, << "l","o","c","k","e","d" >> >>
MissingFile == << Dot, << "g","o","n","e" >> >>

UnitFS(c) ==
    << [isdir |-> FALSE, name |-> TextFile[2], readable |-> TRUE, content |-> c, parent |-> 0],
       [isdir |-> FALSE, name |-> LockedFile[2], readable |-> FALSE, content |-> c, parent |-> 0] >>

InitMatch ==
    /\ content \in Strings(MaxContentLen)
    /\ query \in Strings(MaxQueryLen)
    /\ fs = UnitFS(content)
    /\ argv = << Program >>
    /\ pc = "call"
    /\ results_found = FALSE /\ stack = << >> /\ root = << >>
    /\ files = << >> /\ file = << >> /\ result = None /\ out = << >>
    /\ opened = << >> /\ listed = << >> /\ yielded = << >>
    /\ index = 0 /\ context = 0 /\ matches = << >>
    /\ snippet = << >> /\ path = << >>

Call_find_matches ==
    /\ pc = "call"
    /\ matches' = find_matches(content, query)
    /\ pc' = "find_matches"
    /\ UNCHANGED << fs, argv, query, results_found, stack, root, files, file, result,
                    out, opened, listed, yielded, content, index, context, snippet, path >>

Call_search_file ==
    /\ pc = "call"
    /\ \E p \in { TextFile, LockedFile, MissingFile } :
          /\ path' = p
          /\ opened' = Append(opened, p)
          /\ result' = search_file(fs, p, query).ret
          /\ out' = out \o search_file(fs, p, query).printed
    /\ pc' = "search_file"
    /\ UNCHANGED << fs, argv, query, results_found, stack, root, files, file,
                    listed, yielded, content, index, context, matches, snippet >>

NextMatch == Call_find_matches \/ Call_search_file

SpecMatch == InitMatch /\ [][NextMatch]_vars

(***************************************************************************)
(* Direct calls of format_snippet, on every content, every offset into it  *)
(* and every context up to MaxContext, and the default context.            *)
(***************************************************************************)
InitSnippet ==
    /\ content \in Strings(MaxContentLen)
    /\ fs = << >>
    /\ argv = << Program >>
    /\ pc = "call"
    /\ query = << >> /\ results_found = FALSE /\ stack = << >> /\ root = << >>
    /\ files = << >> /\ file = << >> /\ result = None /\ out = << >>
    /\ opened = << >> /\ listed = << >> /\ yielded = << >>
    /\ index = 0 /\ context = 0 /\ matches = << >>
    /\ snippet = << >> /\ path = << >>

Call_format_snippet ==
    /\ pc = "call"
    /\ \E i \in 0..Len(content), ctx \in (0..MaxContext) \cup { DefaultContext } :
          /\ index' = i
          /\ context' = ctx
          /\ snippet' = format_snippet(content, i, ctx)
    /\ pc' = "format_snippet"
    /\ UNCHANGED << fs, argv, query, results_found, stack, root, files, file, result,
                    out, opened, listed, yielded, content, matches, path >>

NextSnippet == Call_format_snippet

SpecSnippet == InitSnippet /\ [][NextSnippet]_vars

(***************************************************************************)
(* Vocabulary of the properties.                                           *)
(***************************************************************************)
Range(q) == { q[k] : k \in DOMAIN q }
IsPrefix(a, b) == Len(a) <= Len(b) /\ SubSeq(b, 1, Len(a)) = a
Searching == Len(argv) = 2

\* node n lies in a directory with an excluded name, at any depth
InsideExcluded(f, n) ==
    \E k \in 2..(Len(PathOf(f, n)) - 1) : PathOf(f, n)[k] \in EXCLUDE_PATTERNS

\* the 1-based position of the last '.', 0 when there is none
LastDot(name) ==
    IF \E i \in DOMAIN name : name[i] = "."
    THEN CHOOSE i \in DOMAIN name : name[i] = "." /\ \A j \in DOMAIN name : name[j] = "." => j <= i
    ELSE 0

\* the extension as C2 words it: from the last '.' on, lower-cased
ExtensionFromLastDot(name) ==
    IF LastDot(name) = 0 THEN << >>
    ELSE lower(SubSeq(name, LastDot(name), Len(name)))

\* the extension as the code takes it: a last '.' that is the first or the
\* last character of the name starts no extension
ExtensionInsideName(name) ==
    IF LastDot(name) <= 1 \/ LastDot(name) = Len(name) THEN << >>
    ELSE lower(SubSeq(name, LastDot(name), Len(name)))

RECURSIVE ExpectedWalk(_, _, _)
\* The files a walk is to yield: per directory its eligible files in listing
\* order, then its subdirectories in listing order, excluded ones left out.
\* k runs over the nodes, d is the directory (0 for '.').
ExpectedWalk(f, d, k) ==
    IF k > Len(f) THEN
        LET subs == SelectSeq([n \in 1..Len(f) |-> n],
                              LAMBDA n : f[n].parent = d /\ f[n].isdir
                                         /\ f[n].name \notin EXCLUDE_PATTERNS)
        IN  Concat([j \in 1..Len(subs) |-> ExpectedWalk(f, subs[j], 1)])
    ELSE (IF f[k].parent = d /\ ~f[k].isdir
             /\ ExtensionInsideName(f[k].name) \notin BINARY_EXTENSIONS
          THEN << PathOf(f, k) >> ELSE << >>)
         \o ExpectedWalk(f, d, k + 1)

CanRead(f, p) == \E n \in DOMAIN f : PathOf(f, n) = p /\ ~f[n].isdir /\ f[n].readable
TextOf(f, p) == f[CHOOSE n \in DOMAIN f : PathOf(f, n) = p].content

OccursAt(c, q, i) == i + Len(q) <= Len(c) /\ \A k \in 1..Len(q) : c[i + k] = q[k]

RECURSIVE GreedyScan(_, _, _)
\* the offsets of q in c from offset `from` on, leftmost first, each search
\* resuming right after the occurrence found
GreedyScan(c, q, from) ==
    IF \E i \in from..Len(c) : OccursAt(c, q, i)
    THEN LET i == CHOOSE i \in from..Len(c) :
                     OccursAt(c, q, i) /\ \A j \in from..(i - 1) : ~OccursAt(c, q, j)
         IN  << i >> \o GreedyScan(c, q, i + Len(q))
    ELSE << >>

Dashes == [k \in 1..80 |-> "-"]

\* what the report shows for one scanned file: a diagnostic, a block, or nothing
ExpectedLines(f, p, q) ==
    IF ~CanRead(f, p) THEN << Line("error", PathStr(p)) >>
    ELSE IF find_matches(TextOf(f, p), q) = << >> THEN << >>
    ELSE LET ms == find_matches(TextOf(f, p), q)
         IN  << BlankLine, Line("found", PathStr(Tail(p))) >>
             \o [k \in 1..Len(ms) |->
                   Line("context", format_snippet(TextOf(f, p), ms[k], DefaultContext))]
             \o << Line("sep", Dashes) >>

Matching(f, p, q) == CanRead(f, p) /\ find_matches(TextOf(f, p), q) # << >>

Header(q) == << BlankLine, Line("header", q), BlankLine >>
Kinds(lines) == [k \in DOMAIN lines |-> lines[k].kind]
Count(lines, kind) == Cardinality({ k \in DOMAIN lines : lines[k].kind = kind })

\* the files whose scan is over: all the opened ones, but the last while its
\* result is still to be reported
Reported == IF pc = "report" THEN SubSeq(opened, 1, Len(opened) - 1) ELSE opened

(***************************************************************************)
(* C1: no path inside a directory with an excluded name, at any depth      *)
(* below '.', is ever yielded by find_files or opened by search_file, and  *)
(* no such directory is ever listed by the walk.                           *)
(***************************************************************************)
C1_ExcludedNeverVisited ==
    \A n \in DOMAIN fs :
        (fs[n].isdir /\ fs[n].name \in EXCLUDE_PATTERNS) =>
            \A p \in Range(yielded) \cup Range(opened) \cup Range(listed) :
                ~IsPrefix(PathOf(fs, n), p)

\* a finished search of a tree with an excluded directory that holds a text
\* file and lies in a subdirectory the walk has listed
C1_Witness ==
    /\ pc = "done" /\ Searching
    /\ \E d, m \in DOMAIN fs :
          /\ fs[d].isdir /\ fs[d].name \in EXCLUDE_PATTERNS /\ fs[d].parent # 0
          /\ PathOf(fs, fs[d].parent) \in Range(listed)
          /\ fs[m].parent = d /\ ~fs[m].isdir /\ is_text_file(fs[m].name)

(***************************************************************************)
(* C2 as stated: after the walk, a file of a non-pruned directory has been *)
(* yielded iff its extension, taken from the last '.' of its name and      *)
(* lower-cased, is not a binary extension.                                 *)
(***************************************************************************)
C2_YieldedIffExtensionFromLastDot ==
    (pc = "done" /\ Searching) =>
        \A n \in DOMAIN fs :
            (~fs[n].isdir /\ ~InsideExcluded(fs, n)) =>
                (PathOf(fs, n) \in Range(yielded)
                   <=> ExtensionFromLastDot(fs[n].name) \notin BINARY_EXTENSIONS)

(***************************************************************************)
(* C2 amended: after the walk, a file of a non-pruned directory has been   *)
(* yielded iff its extension is not a binary extension, the extension      *)
(* being taken from the last '.' of the name, lower-cased, and being empty *)
(* when that '.' is the first or the last character of the name.           *)
(***************************************************************************)
C2_YieldedIffExtensionInsideName ==
    (pc = "done" /\ Searching) =>
        \A n \in DOMAIN fs :
            (~fs[n].isdir /\ ~InsideExcluded(fs, n)) =>
                (PathOf(fs, n) \in Range(yielded)
                   <=> ExtensionInsideName(fs[n].name) \notin BINARY_EXTENSIONS)

\* a finished walk that skipped 'A.ZIP' and yielded both 'README' and '.log'
C2_Witness ==
    /\ pc = "done" /\ Searching
    /\ \E a, b, c \in DOMAIN fs :
          /\ fs[a].name = << "A",".","Z","I","P" >> /\ PathOf(fs, a) \notin Range(yielded)
          /\ ~InsideExcluded(fs, a)
          /\ fs[b].name = << "R","E","A","D","M","E" >> /\ PathOf(fs, b) \in Range(yielded)
          /\ fs[c].name = << ".","l","o","g" >> /\ PathOf(fs, c) \in Range(yielded)

(***************************************************************************)
(* C3: find_matches returns the empty sequence for the empty query, and    *)
(* search_file then returns no FileMatch.                                  *)
(***************************************************************************)
C3_EmptyQueryNoMatch ==
    /\ (pc = "find_matches" /\ query = << >>) => matches = << >>
    /\ (pc = "search_file" /\ query = << >>) => ~result.some

(***************************************************************************)
(* C4: for a non-empty query, find_matches returns the offsets of the      *)
(* greedy left-to-right scan for the literal, case-sensitive query; they   *)
(* are strictly ascending, at least the query's length apart, and there    *)
(* are none iff the query does not occur.                                  *)
(***************************************************************************)
C4_LiteralGreedyScan ==
    (pc = "find_matches" /\ query # << >>) =>
        /\ matches = GreedyScan(content, query, 0)
        /\ \A k \in DOMAIN matches : OccursAt(content, query, matches[k])
        /\ \A k \in 1..(Len(matches) - 1) : matches[k + 1] - matches[k] >= Len(query)
        /\ (matches = << >>) <=> ~\E i \in 0..Len(content) : OccursAt(content, query, i)

\* 'aa' in 'aaaa' gives [0, 2]
C4_Witness ==
    /\ pc = "find_matches"
    /\ query = << "a", "a" >> /\ content = << "a", "a", "a", "a" >>
    /\ matches = << 0, 2 >>

(***************************************************************************)
(* C5: format_snippet returns '...' + content[start:end] + '...' with      *)
(* start = max(0, offset - context) and end = min(len, offset + context);  *)
(* 0 <= start <= end <= len, the inner part has at most 2*context+1        *)
(* characters, and it is the whole content for offset 0 in a content       *)
(* shorter than context.                                                   *)
(***************************************************************************)
C5_SnippetIsClampedWindow ==
    pc = "format_snippet" =>
        LET start == IF index - context > 0 THEN index - context ELSE 0
            end   == IF index + context < Len(content) THEN index + context ELSE Len(content)
            inner == SubSeq(snippet, 4, Len(snippet) - 3)
        IN  /\ 0 <= start /\ start <= end /\ end <= Len(content)
            /\ Len(snippet) >= 6
            /\ SubSeq(snippet, 1, 3) = << ".", ".", "." >>
            /\ SubSeq(snippet, Len(snippet) - 2, Len(snippet)) = << ".", ".", "." >>
            /\ inner = [k \in 1..(end - start) |-> content[start + k]]
            /\ Len(inner) <= 2 * context + 1
            /\ (index = 0 /\ Len(content) < context) => inner = content

\* offset 0 in a content shorter than the context
C5_Witness ==
    /\ pc = "format_snippet"
    /\ index = 0 /\ Len(content) >= 2 /\ Len(content) < context
    /\ snippet = Ellipsis \o content \o Ellipsis

(***************************************************************************)
(* C6: when files fail to open, the search still ends; each failing file   *)
(* got exactly one diagnostic naming its path and no 'Found in' line, each *)
(* eligible file was opened exactly once, and what is left of the report   *)
(* without the diagnostics is the report of the files that could be read,  *)
(* in walk order.                                                          *)
(***************************************************************************)
C6_FailuresAreIsolated ==
    (pc = "done" /\ Searching) =>
        LET walk == ExpectedWalk(fs, 0, 1)
            good == SelectSeq(walk, LAMBDA p : CanRead(fs, p))
            blocks == Concat([k \in 1..Len(good) |-> ExpectedLines(fs, good[k], query)])
        IN  /\ opened = walk
            /\ \A i, j \in DOMAIN opened : opened[i] = opened[j] => i = j
            /\ \A p \in Range(walk) :
                  ~CanRead(fs, p) =>
                      /\ Cardinality({ k \in DOMAIN out : out[k] = Line("error", PathStr(p)) }) = 1
                      /\ \A k \in DOMAIN out : out[k] # Line("found", PathStr(Tail(p)))
            /\ Count(out, "error") = Len(walk) - Len(good)
            /\ SelectSeq(out, LAMBDA l : l.kind # "error")
                 = Header(query) \o blocks
                   \o (IF blocks = << >> THEN << Line("nomatch", << >>) >> ELSE << >>)

\* a finished search that reported a file, then failed on one, then reported
\* another
C6_Witness ==
    /\ pc = "done" /\ Searching
    /\ \E i, j, k \in DOMAIN out :
          /\ i < j /\ j < k
          /\ out[i].kind = "found" /\ out[j].kind = "error" /\ out[k].kind = "found"

(***************************************************************************)
(* C7: 'No matches found.' is never printed before the walk is over; at    *)
(* the end it has been printed iff no yielded file gave a FileMatch, then  *)
(* exactly once and as the last line, after every file was scanned, and    *)
(* never together with a 'Found in:' line.                                 *)
(***************************************************************************)
C7_NoMatchesNotice ==
    Searching =>
        /\ pc # "done" => Count(out, "nomatch") = 0
        /\ pc = "done" =>
              /\ opened = yielded
              /\ (Count(out, "nomatch") > 0)
                    <=> ~\E p \in Range(yielded) : Matching(fs, p, query)
              /\ Count(out, "nomatch") > 0 =>
                    /\ Count(out, "nomatch") = 1
                    /\ out[Len(out)].kind = "nomatch"
                    /\ Count(out, "found") = 0
              /\ Count(out, "found") > 0 => Count(out, "nomatch") = 0

\* a finished search that scanned a readable file and found nothing
C7_Witness ==
    /\ pc = "done" /\ Searching
    /\ \E p \in Range(opened) : CanRead(fs, p)
    /\ out[Len(out)].kind = "nomatch"

(***************************************************************************)
(* C8: at every point of a search the output is the header followed, for   *)
(* each file scanned so far and in the order the walk yielded them, by     *)
(* that file's lines: for a matching file 'Found in: <relative path>', one *)
(* 'Context:' line per match in ascending offset order and a line of 80    *)
(* '-'.  So a file's block is complete before the next file is opened, and *)
(* at the end every file of the walk has been scanned.                     *)
(***************************************************************************)
C8_ReportIsStreamedInWalkOrder ==
    (Searching /\ pc # "main") =>
        LET body == Concat([k \in 1..Len(Reported) |->
                              ExpectedLines(fs, Reported[k], query)])
            pending == IF pc = "report" /\ ~CanRead(fs, file)
                       THEN << Line("error", PathStr(file)) >> ELSE << >>
        IN  /\ opened = (IF pc = "search" THEN SubSeq(yielded, 1, Len(yielded) - 1) ELSE yielded)
            /\ IsPrefix(yielded, ExpectedWalk(fs, 0, 1))
            /\ pc # "done" => out = Header(query) \o body \o pending
            /\ pc = "done" =>
                  /\ yielded = ExpectedWalk(fs, 0, 1)
                  /\ IsPrefix(Header(query) \o body, out)
                  /\ Len(out) <= Len(Header(query) \o body) + 1

\* the next file is about to be opened and the block of an earlier file,
\* with two 'Context:' lines, is already complete
C8_Witness ==
    /\ pc = "search" /\ Searching
    /\ \E i \in DOMAIN out :
          /\ i + 3 = Len(out)
          /\ Kinds(SubSeq(out, i, i + 3)) = << "found", "context", "context", "sep" >>
          /\ out[i + 3].text = Dashes

(***************************************************************************)
(* C9: with zero or with more than one argument main prints the usage      *)
(* message and the example and returns; nothing is listed, yielded or      *)
(* opened and no header, 'No matches found.' or 'Found in:' line appears.  *)
(***************************************************************************)
C9_UsageWithoutSearch ==
    ~Searching =>
        /\ pc \in { "main", "done" }
        /\ pc = "main" => out = << >>
        /\ pc = "done" => Kinds(out) = << "usage", "example" >>
        /\ listed = << >> /\ yielded = << >> /\ opened = << >>
        /\ Count(out, "header") + Count(out, "nomatch") + Count(out, "found") = 0

\* main has returned from a call with two arguments, in a tree with a file
\* that a search would have reported
C9_Witness ==
    /\ pc = "done" /\ Len(argv) = 3
    /\ Kinds(out) = << "usage", "example" >>
    /\ \E p \in Range(ExpectedWalk(fs, 0, 1)) : Matching(fs, p, argv[2])

(***************************************************************************)
(* C10: search_file returns a FileMatch iff the file was read and          *)
(* find_matches found an offset, and None otherwise; a FileMatch has at    *)
(* least one snippet, one per offset, the i-th being format_snippet of the *)
(* i-th offset, the offsets ascending.                                     *)
(***************************************************************************)
C10_FileMatchIffReadAndMatched ==
    pc = "search_file" =>
        LET ms == find_matches(content, query)
        IN  /\ result.some <=> (path = TextFile /\ ms # << >>)
            /\ ~result.some => result = None
            /\ result.some =>
                  /\ Len(result.snippets) >= 1
                  /\ Len(result.snippets) = Len(ms)
                  /\ \A i \in DOMAIN ms :
                        result.snippets[i] = format_snippet(content, ms[i], DefaultContext)
                  /\ \A i \in 1..(Len(ms) - 1) : ms[i] < ms[i + 1]

\* a FileMatch with two snippets
C10_Witness ==
    /\ pc = "search_file" /\ path = TextFile
    /\ result.some /\ Len(result.snippets) = 2
    /\ query # << >>

====
